---- MODULE Spec2Model ----
(***************************************************************************)
(* Poker player variants of camifernweh/poker-player-polyglots.             *)
(*                                                                         *)
(*   src/unnamed/part_000   stack-aware Player with the banded evaluateHand *)
(*   src/src/Player.ts      opponent-adaptive Player (first class) and      *)
(*                          regret-tracking Player (second class), each     *)
(*                          with a coarse evaluateHand                      *)
(*                                                                         *)
(* JavaScript numbers that are not integers are modelled by sentinels:      *)
(* NaN, NegInfinity and Undefined.  Comparisons go through JsGe / JsGt so   *)
(* that every comparison with NaN or undefined is false, as in JavaScript.  *)
(***************************************************************************)
EXTENDS Integers, Sequences, FiniteSets, TLC

VARIABLES
    holeCards,          \* evaluateHand input: the seat's hole cards
    communityCards,     \* evaluateHand input: the board
    score,              \* <<evaluateHand(holeCards, communityCards)>> once computed
    handY,              \* a second hand, for comparisons between two hands
    scoreY,             \* <<the score of handY>> once computed
    gs,                 \* the snapshot of the last betRequest, or NoState
    commits,            \* amounts passed to betCallback by the last betRequest
    decided,            \* action label of the last makeBet call, or "none"
    opponentAggression, \* Player.opponentAggression: id -> counter or Undefined
    observed,           \* history: id -> <<calls seen with bet > 0, with bet = 0>>
    calls,              \* number of betRequest calls made on the instance
    regretValues,       \* Player.regretValues (regret-tracking Player)
    strategy,           \* Player.strategy (regret-tracking Player)
    atCallback,         \* history: the Player's fields when betCallback was last invoked
    logged              \* hand strengths written to the console by the last showdown

vars == <<holeCards, communityCards, score, handY, scoreY, gs, commits, decided,
          opponentAggression, observed, calls, regretValues, strategy,
          atCallback, logged>>

-----------------------------------------------------------------------------
(* JavaScript values *)

NaN == -2000000
NegInfinity == -1000000
Undefined == -3000000
UndefinedKey == "undefined"
NoState == [none |-> TRUE]

IsNumber(a) == a # NaN /\ a # Undefined

JsGe(a, b) == IsNumber(a) /\ IsNumber(b) /\ a >= b
JsGt(a, b) == IsNumber(a) /\ IsNumber(b) /\ a > b
JsLt(a, b) == IsNumber(a) /\ IsNumber(b) /\ a < b

JsAdd(a, b) == IF IsNumber(a) /\ IsNumber(b) THEN a + b ELSE NaN
JsMul(a, b) == IF IsNumber(a) /\ IsNumber(b) THEN a * b ELSE NaN

Range(s) == {s[i] : i \in DOMAIN s}

MaxOf(S) == CHOOSE x \in S : \A y \in S : y <= x
MinOf(S) == CHOOSE x \in S : \A y \in S : x <= y

\* Math.max(...xs): -Infinity for no argument, NaN when an argument is undefined
MathMax(xs) ==
    IF xs = <<>> THEN NegInfinity
    ELSE IF \E i \in DOMAIN xs : ~IsNumber(xs[i]) THEN NaN
    ELSE MaxOf(Range(xs))

\* Math.min(...xs)
MathMin(xs) ==
    IF xs = <<>> THEN -NegInfinity
    ELSE IF \E i \in DOMAIN xs : ~IsNumber(xs[i]) THEN NaN
    ELSE MinOf(Range(xs))

\* s without its repeated elements, first occurrences kept in order
RECURSIVE Dedupe(_)
Dedupe(s) ==
    IF s = <<>> THEN <<>>
    ELSE LET front == Dedupe(SubSeq(s, 1, Len(s) - 1))
             last == s[Len(s)]
         IN IF last \in Range(front) THEN front ELSE Append(front, last)

-----------------------------------------------------------------------------
(* Cards *)

Suits == {"clubs", "spades", "hearts", "diamonds"}

Card(r, s) == [rank |-> r, suit |-> s]

\* integer-like property names, which Object.keys lists first, ascending
IntegerKeys == <<"2", "3", "4", "5", "6", "7", "8", "9", "10">>

-----------------------------------------------------------------------------
(* src/unnamed/part_000: the banded evaluateHand *)

rankValues ==
    [r \in {"2", "3", "4", "5", "6", "7", "8", "9", "10", "J", "Q", "K", "A"} |->
        CASE r = "2" -> 2 [] r = "3" -> 3 [] r = "4" -> 4 [] r = "5" -> 5
          [] r = "6" -> 6 [] r = "7" -> 7 [] r = "8" -> 8 [] r = "9" -> 9
          [] r = "10" -> 10 [] r = "J" -> 11 [] r = "Q" -> 12
          [] r = "K" -> 13 [] r = "A" -> 14]

\* rankValues[rank]: undefined for a key the table does not hold
rankValueOf(rank) ==
    IF rank \in DOMAIN rankValues THEN rankValues[rank] ELSE Undefined

\* xs.sort((a, b) => a - b): ascending, undefined elements moved to the end
RECURSIVE SortAscending(_)
SortAscending(xs) ==
    IF xs = <<>> THEN <<>>
    ELSE LET x == Head(xs)
             rest == SortAscending(Tail(xs))
             Before(y) == y # Undefined /\ (x = Undefined \/ y <= x)
             After(y) == ~Before(y)
         IN SelectSeq(rest, Before) \o <<x>> \o SelectSeq(rest, After)

\* ranks.map(rank => rankValues[rank]).sort((a, b) => a - b)
sortedRanks(ranks) ==
    SortAscending([i \in DOMAIN ranks |-> rankValueOf(ranks[i])])

\* isFlush with the test count === 5 in place of count >= 5
isFlushExactlyFive(suits) ==
    \E s \in Range(suits) : Cardinality({i \in DOMAIN suits : suits[i] = s}) = 5

\* isFlush: some suit occurs at least 5 times
isFlush(suits) ==
    \E s \in Range(suits) : Cardinality({i \in DOMAIN suits : suits[i] = s}) >= 5

\* isStraight without the special case of the Ace-low straight: the Ace only
\* counts as 14, so A-2-3-4-5 is no straight
isStraightNoWheel(sorted) ==
    LET uniqueRanks == Dedupe(sorted)
        Run(i) == /\ uniqueRanks[i] = uniqueRanks[i - 1] + 1
                  /\ uniqueRanks[i - 1] = uniqueRanks[i - 2] + 1
                  /\ uniqueRanks[i - 2] = uniqueRanks[i - 3] + 1
                  /\ uniqueRanks[i - 3] = uniqueRanks[i - 4] + 1
        runs == {i \in 5..Len(uniqueRanks) : Run(i)}
    IN  IF runs # {} THEN uniqueRanks[MaxOf(runs)] ELSE 0

\* isStraight: the high card of the highest run of 5 consecutive values,
\* 5 for the wheel A-2-3-4-5, 0 when there is no straight
isStraight(sorted) ==
    LET uniqueRanks == Dedupe(sorted)
        Run(i) == /\ uniqueRanks[i] = uniqueRanks[i - 1] + 1
                  /\ uniqueRanks[i - 1] = uniqueRanks[i - 2] + 1
                  /\ uniqueRanks[i - 2] = uniqueRanks[i - 3] + 1
                  /\ uniqueRanks[i - 3] = uniqueRanks[i - 4] + 1
        runs == {i \in 5..Len(uniqueRanks) : Run(i)}
    IN  IF runs # {} THEN uniqueRanks[MaxOf(runs)]
        ELSE IF {14, 2, 3, 4, 5} \subseteq Range(uniqueRanks) THEN 5
        ELSE 0

\* countRanks: the number of cards of a rank (0 stands for an absent key)
countRanks(ranks, rank) == Cardinality({i \in DOMAIN ranks : ranks[i] = rank})

\* Object.keys(rankCount): integer-like keys ascending, then the other keys
\* in the order of their first insertion
ObjectKeys(ranks) ==
    LET IsKey(k) == k \in Range(ranks)
        NotInteger(k) == k \notin Range(IntegerKeys)
    IN  SelectSeq(IntegerKeys, IsKey) \o Dedupe(SelectSeq(ranks, NotInteger))

\* Object.values(rankCount).sort((a, b) => b - a), read at index n (0-based);
\* an index past the end reads undefined
countsAt(ranks, n) ==
    LET keys == ObjectKeys(ranks)
        desc == SortAscending([i \in DOMAIN keys |-> 0 - countRanks(ranks, keys[i])])
    IN  IF n + 1 <= Len(desc) THEN 0 - desc[n + 1] ELSE Undefined

\* getKeyByValue(rankCount, value): the first key, in Object.keys order, whose
\* count is value; undefined when there is none
getKeyByValue(ranks, value) ==
    LET keys == ObjectKeys(ranks)
        hits == {i \in DOMAIN keys : countRanks(ranks, keys[i]) = value}
    IN  IF hits = {} THEN UndefinedKey ELSE keys[MinOf(hits)]

\* the branch of evaluateHand's if-chain that a hand takes, 8 (straight flush
\* branch) down to 0 (high card branch)
handBranch(hole, community) ==
    LET allCards == hole \o community
        ranks == [i \in DOMAIN allCards |-> allCards[i].rank]
        suits == [i \in DOMAIN allCards |-> allCards[i].suit]
        flush == isFlush(suits)
        straightHighCard == isStraight(sortedRanks(ranks))
        c0 == countsAt(ranks, 0)
        c1 == countsAt(ranks, 1)
    IN  IF flush /\ straightHighCard >= 10 THEN 8
        ELSE IF c0 = 4 THEN 7
        ELSE IF c0 = 3 /\ JsGe(c1, 2) THEN 6
        ELSE IF flush THEN 5
        ELSE IF straightHighCard > 0 THEN 4
        ELSE IF c0 = 3 THEN 3
        ELSE IF c0 = 2 /\ c1 = 2 THEN 2
        ELSE IF c0 = 2 THEN 1
        ELSE 0

\* evaluateHand(holeCards = [], communityCards)
evaluateHand(hole, community) ==
    LET allCards == hole \o community
        ranks == [i \in DOMAIN allCards |-> allCards[i].rank]
        sorted == sortedRanks(ranks)
        straightHighCard == isStraight(sorted)
        branch == handBranch(hole, community)
        keys == ObjectKeys(ranks)
        IsPair(k) == countRanks(ranks, k) = 2
        pairs == SelectSeq(keys, IsPair)
        pairValues == [i \in DOMAIN pairs |-> rankValueOf(pairs[i])]
    IN  CASE branch = 8 -> 800 + straightHighCard
          [] branch = 7 -> JsAdd(700, rankValueOf(getKeyByValue(ranks, 4)))
          [] branch = 6 ->
                JsAdd(JsAdd(600, JsMul(rankValueOf(getKeyByValue(ranks, 3)), 10)),
                      rankValueOf(getKeyByValue(ranks, 2)))
          [] branch = 5 -> JsAdd(500, MathMax(sorted))
          [] branch = 4 -> 400 + straightHighCard
          [] branch = 3 -> JsAdd(300, rankValueOf(getKeyByValue(ranks, 3)))
          [] branch = 2 ->
                JsAdd(JsAdd(200, JsMul(MathMax(pairValues), 10)), MathMin(pairValues))
          [] branch = 1 -> JsAdd(100, rankValueOf(getKeyByValue(ranks, 2)))
          [] OTHER -> MathMax(sorted)

-----------------------------------------------------------------------------
(* src/src/Player.ts: the coarse evaluateHand of the opponent-adaptive Player *)
(* (lines 262-387); the regret-tracking Player's private methods at lines     *)
(* 676-735 are the same functions                                             *)

\* getRankValue: 0 for a rank the switch does not list
getRankValue(rank) ==
    IF rank \in DOMAIN rankValues THEN rankValues[rank] ELSE 0

\* Array.from(rankCount.keys()): the keys of a Map, in insertion order
MapKeys(cards) == Dedupe([i \in DOMAIN cards |-> cards[i].rank])

\* rankCount.get(rank) of countRanks(cards)
MapCount(cards, rank) == Cardinality({i \in DOMAIN cards : cards[i].rank = rank})

\* Object.values(suitCount) with suitCount a Map: a Map has no own enumerable
\* properties, so the result is the empty array whatever countSuits stored
ObjectValuesOfMap(cards) == <<>>

\* Object.values(suitCount).some((count) => count >= 5)
isFlushCoarse(cards) ==
    \E i \in DOMAIN ObjectValuesOfMap(cards) : ObjectValuesOfMap(cards)[i] >= 5

\* checkStraight: five distinct ranks spanning exactly 4
checkStraight(cards) ==
    LET keys == MapKeys(cards)
        ranks == SortAscending([i \in DOMAIN keys |-> getRankValue(keys[i])])
    IN  \E i \in 1..(Len(ranks) - 4) : ranks[i + 4] - ranks[i] = 4

\* getPairs: the ranks held exactly twice
getPairs(cards) ==
    LET IsPair(k) == MapCount(cards, k) = 2
    IN  SelectSeq(MapKeys(cards), IsPair)

getThreeOfAKind(cards) == \E k \in Range(MapKeys(cards)) : MapCount(cards, k) = 3

getFourOfAKind(cards) == \E k \in Range(MapKeys(cards)) : MapCount(cards, k) = 4

\* evaluateHand of the opponent-adaptive Player (lines 262-301)
evaluateHandAdaptive(hole, community) ==
    LET allCards == hole \o community
        flush == isFlushCoarse(allCards)
        straight == checkStraight(allCards)
        pairs == getPairs(allCards)
        keys == Range(MapKeys(allCards))
    IN  IF straight /\ flush /\ "A" \in keys /\ "K" \in keys THEN 100
        ELSE IF straight /\ flush THEN 90
        ELSE IF getFourOfAKind(allCards) THEN 80
        ELSE IF getThreeOfAKind(allCards) /\ Len(pairs) > 0 THEN 70
        ELSE IF flush THEN 60
        ELSE IF straight THEN 50
        ELSE IF getThreeOfAKind(allCards) THEN 40
        ELSE IF Len(pairs) > 1 THEN 30
        ELSE IF Len(pairs) = 1 THEN 20
        ELSE 10

\* evaluateHand of the regret-tracking Player (lines 635-674)
evaluateHandRegret(hole, community) ==
    LET allCards == hole \o community
        flush == isFlushCoarse(allCards)
        straight == checkStraight(allCards)
        pairs == getPairs(allCards)
        keys == Range(MapKeys(allCards))
    IN  IF straight /\ flush /\ "A" \in keys /\ "K" \in keys THEN 100
        ELSE IF straight /\ flush THEN 90
        ELSE IF getFourOfAKind(allCards) THEN 80
        ELSE IF getThreeOfAKind(allCards) /\ Len(pairs) > 0 THEN 70
        ELSE IF flush THEN 60
        ELSE IF straight THEN 50
        ELSE IF getThreeOfAKind(allCards) THEN 40
        ELSE IF Len(pairs) > 0 THEN 30
        ELSE 10

-----------------------------------------------------------------------------
(* Snapshots (GameState).  players is 1-based here: the acting seat is      *)
(* players[in_action + 1].  A seat without hole_cards has present = FALSE.  *)

Seat(id, bet, stack, present, hole) ==
    [id |-> id, bet |-> bet, stack |-> stack, present |-> present, hole_cards |-> hole]

ActingSeat(g) == g.players[g.in_action + 1]

\* player.hole_cards passed to evaluateHand(holeCards = [], ...): the default
\* parameter replaces an absent (undefined) argument by []
HoleCardsArg(seat) == IF seat.present THEN seat.hole_cards ELSE <<>>

-----------------------------------------------------------------------------
(* src/unnamed/part_000: the stack-aware Player *)

STRONG_HAND == 700
MODERATE_HAND == 300

\* betRequest with the raise passed on as computed (no Math.min with the stack)
betRequestRaiseUnclamped(g) ==
    LET player == ActingSeat(g)
        noCards == IF ~player.present THEN <<0>> ELSE <<>>
        handStrength == evaluateHand(HoleCardsArg(player), g.community_cards)
        callAmount == g.current_buy_in - player.bet
        raiseAmount == g.current_buy_in + g.minimum_raise
    IN  noCards \o
        ( IF JsGe(handStrength, STRONG_HAND) THEN << raiseAmount >>
          ELSE IF JsGe(handStrength, MODERATE_HAND)
            THEN << IF callAmount <= player.stack THEN callAmount ELSE player.stack >>
          ELSE <<0>> )

\* betRequest with the call passed on as computed (no comparison with the stack)
betRequestCallUnclamped(g) ==
    LET player == ActingSeat(g)
        noCards == IF ~player.present THEN <<0>> ELSE <<>>
        handStrength == evaluateHand(HoleCardsArg(player), g.community_cards)
        callAmount == g.current_buy_in - player.bet
        raiseAmount == g.current_buy_in + g.minimum_raise
    IN  noCards \o
        ( IF JsGe(handStrength, STRONG_HAND)
            THEN << IF raiseAmount < player.stack THEN raiseAmount ELSE player.stack >>
          ELSE IF JsGe(handStrength, MODERATE_HAND) THEN << callAmount >>
          ELSE <<0>> )

\* betRequest: the amounts passed to betCallback, in order
betRequest(g) ==
    LET player == ActingSeat(g)
        noCards == IF ~player.present THEN <<0>> ELSE <<>>
        handStrength == evaluateHand(HoleCardsArg(player), g.community_cards)
        callAmount == g.current_buy_in - player.bet
        raiseAmount == g.current_buy_in + g.minimum_raise
    IN  noCards \o
        ( IF JsGe(handStrength, STRONG_HAND)
            THEN << IF raiseAmount < player.stack THEN raiseAmount ELSE player.stack >>
          ELSE IF JsGe(handStrength, MODERATE_HAND)
            THEN << IF callAmount <= player.stack THEN callAmount ELSE player.stack >>
          ELSE <<0>> )

-----------------------------------------------------------------------------
(* src/src/Player.ts, first class: the opponent-adaptive Player *)

\* preFlopStrategy: the amount passed to betCallback
preFlopStrategy(handStrength, callAmount, minimum_raise) ==
    IF handStrength > 70 THEN callAmount + minimum_raise * 2
    ELSE IF handStrength > 40 THEN callAmount
    ELSE 0

\* calculatePotOdds(callAmount, pot) < 0.5, without the division
potOddsBelowHalf(callAmount, pot) ==
    IF pot > 0
      THEN LET d == pot + callAmount
           IN  IF d > 0 THEN 2 * callAmount < d
               ELSE IF d < 0 THEN 2 * callAmount > d
               ELSE TRUE    \* callAmount / 0 with callAmount < 0 is -Infinity
      ELSE TRUE             \* potOdds is 0

\* evaluateBluffOpportunity
evaluateBluffOpportunity(handStrength, callAmount, pot) ==
    handStrength < 40 /\ potOddsBelowHalf(callAmount, pot)

\* postFlopStrategy: the amount passed to betCallback
postFlopStrategy(handStrength, callAmount, minimum_raise, pot) ==
    IF handStrength > 80 THEN callAmount + minimum_raise * 2
    ELSE IF handStrength > 50 THEN callAmount + minimum_raise
    ELSE IF handStrength > 20 /\ evaluateBluffOpportunity(handStrength, callAmount, pot)
      THEN callAmount + minimum_raise
    ELSE 0

\* the forEach body with the initialisation done on every visit, not only
\* the first
trackOneResets(agg, opponent) ==
    LET init == [agg EXCEPT ![opponent.id] = 0]
    IN  IF opponent.bet > 0
          THEN [init EXCEPT ![opponent.id] = @ + 1]
          ELSE [init EXCEPT ![opponent.id] = @ - 1]

\* the forEach body counting a betting seat twice
trackOneByTwo(agg, opponent) ==
    LET init == IF agg[opponent.id] = Undefined \/ agg[opponent.id] = 0
                  THEN [agg EXCEPT ![opponent.id] = 0]
                  ELSE agg
    IN  IF opponent.bet > 0
          THEN [init EXCEPT ![opponent.id] = @ + 2]
          ELSE [init EXCEPT ![opponent.id] = @ - 1]

\* the body of trackOpponentBehavior's forEach for one seat
trackOne(agg, opponent) ==
    LET init == IF agg[opponent.id] = Undefined \/ agg[opponent.id] = 0
                  THEN [agg EXCEPT ![opponent.id] = 0]
                  ELSE agg
    IN  IF opponent.bet > 0
          THEN [init EXCEPT ![opponent.id] = @ + 1]
          ELSE [init EXCEPT ![opponent.id] = @ - 1]

\* trackOpponentBehavior(players): the seats are visited in order
RECURSIVE trackOpponentBehavior(_, _)
trackOpponentBehavior(agg, players) ==
    IF players = <<>> THEN agg
    ELSE trackOpponentBehavior(trackOne(agg, Head(players)), Tail(players))

\* opponentBasedStrategy: the amount passed to betCallback
opponentBasedStrategy(agg, handStrength, callAmount, minimum_raise) ==
    LET keys == {id \in DOMAIN agg : agg[id] # Undefined}
        aggressiveOpponents == Cardinality({id \in keys : agg[id] > 3})
        passiveOpponents == Cardinality({id \in keys : agg[id] <= 3 /\ agg[id] < -3})
    IN  IF aggressiveOpponents > passiveOpponents
          THEN IF handStrength > 70 THEN callAmount + minimum_raise * 2
               ELSE IF handStrength > 40 THEN callAmount
               ELSE 0
        ELSE IF passiveOpponents > aggressiveOpponents
          THEN IF handStrength > 50 THEN callAmount + minimum_raise
               ELSE callAmount
        ELSE IF handStrength > 70 THEN callAmount + minimum_raise * 2
             ELSE IF handStrength > 40 THEN callAmount
             ELSE 0

\* betRequest of the opponent-adaptive Player: the amounts passed to
\* betCallback, in order, given the aggression table before the call
betRequestAdaptive(agg, g) ==
    LET player == ActingSeat(g)
        callAmount == g.current_buy_in - player.bet
        isPreFlop == Len(g.community_cards) = 0
        handStrength == evaluateHandAdaptive(HoleCardsArg(player), g.community_cards)
        first == IF isPreFlop
                   THEN preFlopStrategy(handStrength, callAmount, g.minimum_raise)
                   ELSE postFlopStrategy(handStrength, callAmount, g.minimum_raise, g.pot)
        tracked == trackOpponentBehavior(agg, g.players)
    IN  << first,
           opponentBasedStrategy(tracked, handStrength, callAmount, g.minimum_raise) >>

\* showdown of the opponent-adaptive Player: the hand strengths it logs, one
\* for each seat whose status is 'active' (the seats at the positions active),
\* in seat order.  It assigns no field and takes no callback.
showdownAdaptive(g, active) ==
    LET IsActive(i) == i \in active
        idx == SelectSeq([i \in DOMAIN g.players |-> i], IsActive)
    IN  [k \in DOMAIN idx |->
            evaluateHandAdaptive(HoleCardsArg(g.players[idx[k]]), g.community_cards)]

-----------------------------------------------------------------------------
(* src/src/Player.ts, second class: the regret-tracking Player *)

\* a JavaScript quotient n / d (d > 0) kept exact, in lowest terms
RECURSIVE Gcd(_, _)
Gcd(a, b) == IF b = 0 THEN a ELSE Gcd(b, a % b)

Quotient(n, d) == LET k == Gcd(d, n) IN <<n \div k, d \div k>>

\* isContinuationBettingScenario answering no
isContinuationNever == FALSE

isContinuationBettingScenario == TRUE

\* aggressivePreFlopStrategy: the arguments of makeBet
aggressivePreFlopStrategy(handStrength, callAmount, minimum_raise) ==
    IF handStrength > 80
      THEN [amount |-> callAmount + minimum_raise * 4, action |-> "raise"]
    ELSE IF handStrength > 50
      THEN [amount |-> callAmount + minimum_raise * 2, action |-> "raise"]
    ELSE [amount |-> 0, action |-> "fold"]

\* postFlopStrategy: the arguments of makeBet.  multiplier is the value of
\* randomBetMultiplier() (1 or 2, by Math.random); bluffs is the outcome of
\* bluffFrequency > Math.random(), which can go either way because
\* getBluffFrequency() lies in [0.1, 0.7]
postFlopStrategyRegret(handStrength, callAmount, minimum_raise, multiplier, bluffs) ==
    IF isContinuationBettingScenario
      THEN [amount |-> callAmount + minimum_raise * multiplier, action |-> "raise"]
    ELSE IF bluffs
      THEN [amount |-> callAmount + minimum_raise * multiplier, action |-> "raise"]
    ELSE IF handStrength > 50
      THEN [amount |-> callAmount + minimum_raise * multiplier, action |-> "call"]
    ELSE [amount |-> 0, action |-> "fold"]

\* updateRegret adding the amount as it is (no Math.max(0, amount))
updateRegretUnfloored(regret, action, amount) ==
    IF action = "raise" THEN [regret EXCEPT !.raise = @ + amount]
    ELSE IF action = "call" THEN [regret EXCEPT !.call = @ + amount]
    ELSE [regret EXCEPT !.fold = @ + 1]

\* updateRegret(action, amount)
updateRegret(regret, action, amount) ==
    LET gain == IF amount > 0 THEN amount ELSE 0
    IN  IF action = "raise" THEN [regret EXCEPT !.raise = @ + gain]
        ELSE IF action = "call" THEN [regret EXCEPT !.call = @ + gain]
        ELSE [regret EXCEPT !.fold = @ + 1]

\* updateStrategy()
updateStrategy(strat, regret) ==
    LET totalRegret == regret.fold + regret.call + regret.raise
        Share(r) == Quotient(IF r > 0 THEN r ELSE 0, totalRegret)
    IN  IF totalRegret <= 0 THEN strat
        ELSE [fold |-> Share(regret.fold), call |-> Share(regret.call),
              raise |-> Share(regret.raise)]

\* the decision of betRequest of the regret-tracking Player: the arguments
\* of its one makeBet call
decideRegret(g, multiplier, bluffs) ==
    LET player == ActingSeat(g)
        callAmount == g.current_buy_in - player.bet
        isPreFlop == Len(g.community_cards) = 0
        handStrength == evaluateHandRegret(HoleCardsArg(player), g.community_cards)
    IN  IF isPreFlop
          THEN aggressivePreFlopStrategy(handStrength, callAmount, g.minimum_raise)
          ELSE postFlopStrategyRegret(handStrength, callAmount, g.minimum_raise,
                                      multiplier, bluffs)

\* showdown of the regret-tracking Player: the hand strengths it logs, one
\* for each seat whose status is 'active' (the seats at the positions active),
\* in seat order.  It assigns no field and takes no callback.
showdownRegret(g, active) ==
    LET IsActive(i) == i \in active
        idx == SelectSeq([i \in DOMAIN g.players |-> i], IsActive)
    IN  [k \in DOMAIN idx |->
            evaluateHandRegret(HoleCardsArg(g.players[idx[k]]), g.community_cards)]

-----------------------------------------------------------------------------
(* Inputs of the hand evaluator *)

\* the largest number of cards handed to evaluateHand
MaxCards == 7

\* the cards the evaluated hands are drawn from
DeckSeq ==
    << Card("2", "hearts"), Card("3", "hearts"), Card("4", "hearts"),
       Card("5", "hearts"), Card("6", "hearts"), Card("K", "hearts"),
       Card("A", "hearts"),
       Card("2", "spades"), Card("3", "spades"), Card("K", "spades"),
       Card("A", "spades"),
       Card("2", "diamonds"), Card("K", "diamonds"), Card("A", "diamonds"),
       Card("2", "clubs"),
       Card("10", "hearts"), Card("J", "hearts"), Card("Q", "hearts") >>

\* the cards of deck at the positions S, in deck order or in reverse deck order
PickCards(deck, S, reversed) ==
    LET InS(i) == i \in S
        idx == SelectSeq([i \in 1..Len(deck) |-> i], InS)
        n == Len(idx)
    IN  [k \in 1..n |-> deck[idx[IF reversed THEN n + 1 - k ELSE k]]]

\* a hand split as the game deals it: the first two cards are the hole cards
AsHand(cards) ==
    LET h == IF Len(cards) < 2 THEN Len(cards) ELSE 2
    IN  [hole |-> SubSeq(cards, 1, h), community |-> SubSeq(cards, h + 1, Len(cards))]

EvalHands ==
    { AsHand(PickCards(DeckSeq, S, rev)) :
        S \in {T \in SUBSET (1..Len(DeckSeq)) : Cardinality(T) <= MaxCards},
        rev \in BOOLEAN }

\* positions in DeckSeq of the four 2s, three aces and two kings
PairDeckPositions == {1, 8, 12, 15, 7, 11, 14, 6, 10}

PairHands ==
    { AsHand(PickCards(DeckSeq, S, FALSE)) :
        S \in {T \in SUBSET PairDeckPositions :
                 Cardinality(T) >= 5 /\ Cardinality(T) <= MaxCards} }

\* the ranks the full houses are made of
HouseRanks == {"2", "3", "4", "A"}

\* five cards: three of rank t and two of rank p, the triple or the pair first
FullHouse(t, p, tripleFirst) ==
    LET triple == << Card(t, "hearts"), Card(t, "spades"), Card(t, "diamonds") >>
        pair == << Card(p, "clubs"), Card(p, "hearts") >>
    IN  IF tripleFirst THEN triple \o pair ELSE pair \o triple

HouseHands ==
    { AsHand(FullHouse(t, p, first)) :
        t \in HouseRanks, p \in HouseRanks, first \in BOOLEAN } \
    { AsHand(FullHouse(t, t, first)) : t \in HouseRanks, first \in BOOLEAN }

\* the ranks the two-pair hands are made of
TwoPairRanks == {"2", "Q", "K", "A"}

\* the two cards of a pair
PairOf(r) == << Card(r, "hearts"), Card(r, "spades") >>

\* five cards with two pairs and seven cards with three pairs, each with the
\* 7 of diamonds as the odd card, the pairs in the order given
TwoPairHands ==
    { AsHand(PairOf(t[1]) \o PairOf(t[2]) \o << Card("7", "diamonds") >>) :
        t \in {u \in TwoPairRanks \X TwoPairRanks : u[1] # u[2]} } \cup
    { AsHand(PairOf(t[1]) \o PairOf(t[2]) \o PairOf(t[3]) \o << Card("7", "diamonds") >>) :
        t \in {u \in TwoPairRanks \X TwoPairRanks \X TwoPairRanks :
                 u[1] # u[2] /\ u[1] # u[3] /\ u[2] # u[3]} }

\* positions in DeckSeq of the ten hearts and of the 2 and 3 of spades
CoarseDeckPositions == {1, 2, 3, 4, 5, 6, 7, 8, 9, 16, 17, 18}

\* hands of five to seven cards for the coarse evaluator
CoarseHands ==
    { AsHand(PickCards(DeckSeq, S, FALSE)) :
        S \in {T \in SUBSET CoarseDeckPositions :
                 Cardinality(T) >= 5 /\ Cardinality(T) <= MaxCards} }

-----------------------------------------------------------------------------
(* State left alone by a specification that does not use it *)

EvalIdle ==
    /\ holeCards = <<>>
    /\ communityCards = <<>>
    /\ score = <<>>
    /\ handY = NoState
    /\ scoreY = <<>>

BetIdle ==
    /\ gs = NoState
    /\ commits = <<>>
    /\ decided = "none"
    /\ atCallback = NoState
    /\ logged = <<>>

EngineIdle ==
    /\ opponentAggression = <<>>
    /\ observed = <<>>
    /\ calls = 0
    /\ regretValues = NoState
    /\ strategy = NoState

-----------------------------------------------------------------------------
(* SpecEval: one hand is scored by the banded evaluateHand *)

InitEval ==
    /\ \E h \in EvalHands :
        /\ holeCards = h.hole
        /\ communityCards = h.community
    /\ score = <<>>
    /\ handY = NoState
    /\ scoreY = <<>>
    /\ BetIdle
    /\ EngineIdle

Evaluate ==
    /\ score = <<>>
    /\ score' = <<evaluateHand(holeCards, communityCards)>>
    /\ scoreY' = IF handY = NoState THEN <<>>
                 ELSE <<evaluateHand(handY.hole, handY.community)>>
    /\ UNCHANGED <<holeCards, communityCards, handY, gs, commits, decided,
                   opponentAggression, observed, calls, regretValues, strategy,
                   atCallback, logged>>

NextEval == Evaluate

SpecEval == InitEval /\ [][NextEval]_vars

(* SpecPair: two hands are scored, to compare their scores *)

InitPair ==
    /\ \E h \in PairHands :
        /\ holeCards = h.hole
        /\ communityCards = h.community
    /\ handY \in PairHands
    /\ score = <<>>
    /\ scoreY = <<>>
    /\ BetIdle
    /\ EngineIdle

SpecPair == InitPair /\ [][NextEval]_vars

(* SpecHouse: two full houses are scored, to compare their scores *)

InitHouse ==
    /\ \E h \in HouseHands :
        /\ holeCards = h.hole
        /\ communityCards = h.community
    /\ handY \in HouseHands
    /\ score = <<>>
    /\ scoreY = <<>>
    /\ BetIdle
    /\ EngineIdle

SpecHouse == InitHouse /\ [][NextEval]_vars

(* SpecTwoPair: two hands of two or three pairs are scored *)

InitTwoPair ==
    /\ \E h \in TwoPairHands :
        /\ holeCards = h.hole
        /\ communityCards = h.community
    /\ handY \in TwoPairHands
    /\ score = <<>>
    /\ scoreY = <<>>
    /\ BetIdle
    /\ EngineIdle

SpecTwoPair == InitTwoPair /\ [][NextEval]_vars

(* SpecCoarse: one hand is scored by the coarse evaluateHand of the       *)
(* opponent-adaptive Player                                                *)

InitCoarse ==
    /\ \E h \in CoarseHands :
        /\ holeCards = h.hole
        /\ communityCards = h.community
    /\ score = <<>>
    /\ handY = NoState
    /\ scoreY = <<>>
    /\ BetIdle
    /\ EngineIdle

EvaluateCoarse ==
    /\ score = <<>>
    /\ score' = <<evaluateHandAdaptive(holeCards, communityCards)>>
    /\ UNCHANGED <<holeCards, communityCards, handY, scoreY, gs, commits, decided,
                   opponentAggression, observed, calls, regretValues, strategy,
                   atCallback, logged>>

NextCoarse == EvaluateCoarse

SpecCoarse == InitCoarse /\ [][NextCoarse]_vars

-----------------------------------------------------------------------------
(* Snapshots handed to betRequest *)

\* the largest number of betRequest calls made on one Player instance
MaxCalls == 5

Board ==
    << Card("K", "spades"), Card("K", "hearts"), Card("K", "diamonds"),
       Card("3", "clubs"), Card("9", "spades") >>

LowHole == << Card("2", "clubs"), Card("7", "diamonds") >>
KingHole == << Card("K", "clubs"), Card("7", "diamonds") >>
AceHole == << Card("A", "spades"), Card("A", "hearts") >>

Snapshot(buyIn, minRaise, pot, inAction, players, community) ==
    [current_buy_in |-> buyIn, minimum_raise |-> minRaise, pot |-> pot,
     in_action |-> inAction, players |-> players, community_cards |-> community]

\* snapshots for the stack-aware Player: one seat, with or without hole cards
StackSeats ==
    { Seat(0, bet, stack, h.present, h.cards) :
        bet \in {0, 20, 300}, stack \in {0, 50, 120, 1000},
        h \in { [present |-> FALSE, cards |-> <<>>],
                [present |-> TRUE, cards |-> LowHole],
                [present |-> TRUE, cards |-> KingHole],
                [present |-> TRUE, cards |-> AceHole] } }

StackSnapshots ==
    { Snapshot(buyIn, minRaise, 0, 0, <<seat>>, SubSeq(Board, 1, n)) :
        buyIn \in {0, 100, 280}, minRaise \in {20, 40},
        seat \in StackSeats, n \in {0, 3, 4, 5} }

\* the seat ids of the snapshots
Ids == {0, 1}

\* deals for the coarse evaluators: high card and a pair before the flop;
\* high card, pair, two pair, three of a kind, straight, full house and
\* four of a kind after it
CoarseDeals ==
    { [hole |-> LowHole, community |-> <<>>],
      [hole |-> AceHole, community |-> <<>>],
      [hole |-> LowHole,
       community |-> << Card("K", "spades"), Card("3", "hearts"), Card("9", "diamonds") >>],
      [hole |-> AceHole,
       community |-> << Card("K", "spades"), Card("3", "clubs"), Card("9", "spades") >>],
      [hole |-> AceHole,
       community |-> << Card("K", "spades"), Card("K", "hearts"), Card("9", "spades") >>],
      [hole |-> LowHole, community |-> SubSeq(Board, 1, 3)],
      [hole |-> << Card("4", "hearts"), Card("5", "diamonds") >>,
       community |-> << Card("6", "spades"), Card("7", "clubs"), Card("8", "hearts") >>],
      [hole |-> << Card("7", "spades"), Card("7", "diamonds") >>,
       community |-> SubSeq(Board, 1, 3)],
      [hole |-> KingHole, community |-> SubSeq(Board, 1, 3)] }

\* the seats of a snapshot: the acting seat (id 0, nothing committed yet),
\* alone or before one opponent
TablePlayers(hole) ==
    { <<Seat(0, 0, 1000, TRUE, hole)>> } \cup
    { <<Seat(0, 0, 1000, TRUE, hole), Seat(1, oppBet, 1000, FALSE, <<>>)>> :
        oppBet \in {0, 20} }

\* current_buy_in and pot of the snapshots: pot odds above one half, below
\* one half, and nothing to call
Stakes == { [buyIn |-> 100, pot |-> 50], [buyIn |-> 100, pot |-> 300],
            [buyIn |-> 0, pot |-> 50] }

\* the seats of a snapshot of the opponent-adaptive Player: the acting seat
\* alone, both seats with nothing committed, both seats with a bet
AdaptivePlayers(hole) ==
    { <<Seat(0, 0, 1000, TRUE, hole)>>,
      <<Seat(0, 0, 1000, TRUE, hole), Seat(1, 0, 1000, FALSE, <<>>)>>,
      <<Seat(0, 20, 1000, TRUE, hole), Seat(1, 20, 1000, FALSE, <<>>)>> }

AdaptiveSnapshots ==
    UNION { { Snapshot(s.buyIn, 20, s.pot, 0, players, deal.community) :
                players \in AdaptivePlayers(deal.hole) } :
            s \in Stakes, deal \in CoarseDeals }

\* snapshots handed to showdown: the full board, both seats show their hole
\* cards
ShowdownSnapshots ==
    { Snapshot(20, 20, 50, 0,
               << Seat(0, 0, 1000, TRUE, LowHole), Seat(1, 20, 1000, TRUE, KingHole) >>,
               Board) }

\* the positions of the seats whose status is 'active' at a showdown: the
\* second seat alone (the first has folded), or both
ShowdownActive == {{2}, {1, 2}}

-----------------------------------------------------------------------------
(* SpecStack: betRequest of the stack-aware Player, called on any snapshot. *)
(* The class has no fields, so every call starts from the same state: one    *)
(* call per behaviour reaches every state a sequence of calls reaches.       *)

InitStack ==
    /\ EvalIdle
    /\ BetIdle
    /\ EngineIdle

BetRequestStack ==
    /\ gs = NoState
    /\ \E g \in StackSnapshots :
        /\ gs' = g
        /\ commits' = betRequest(g)
        /\ UNCHANGED <<holeCards, communityCards, score, handY, scoreY, decided,
                       opponentAggression, observed, calls, regretValues, strategy,
                       atCallback, logged>>

NextStack == BetRequestStack

SpecStack == InitStack /\ [][NextStack]_vars

(* SpecUnknown: betRequest of the stack-aware Player on snapshots whose     *)
(* acting seat holds a card of a rank that rankValues does not list          *)

UnknownCard == Card("X", "clubs")

DryBoard == << Card("3", "clubs"), Card("9", "spades"), Card("J", "hearts") >>

UnknownSnapshots ==
    { Snapshot(buyIn, minRaise, 0, 0, << Seat(0, bet, stack, TRUE, hole) >>, board) :
        buyIn \in {0, 100}, minRaise \in {20, 40}, bet \in {0, 20},
        stack \in {50, 1000},
        hole \in { << UnknownCard, Card("7", "diamonds") >>,
                   << Card("7", "diamonds"), UnknownCard >>,
                   << UnknownCard, Card("K", "clubs") >> },
        board \in { <<>>, DryBoard, SubSeq(Board, 1, 3), Board } }

BetRequestUnknown ==
    /\ gs = NoState
    /\ \E g \in UnknownSnapshots :
        /\ gs' = g
        /\ commits' = betRequest(g)
        /\ UNCHANGED <<holeCards, communityCards, score, handY, scoreY, decided,
                       opponentAggression, observed, calls, regretValues, strategy,
                       atCallback, logged>>

NextUnknown == BetRequestUnknown

SpecUnknown == InitStack /\ [][NextUnknown]_vars

-----------------------------------------------------------------------------
(* SpecAdaptive: betRequest calls on one opponent-adaptive Player instance *)

\* what a call adds to the history of seat id: <<1, 0>> when the snapshot
\* holds the id with bet > 0, <<0, 1>> when it holds it with bet = 0
Sighting(players, id) ==
    LET seen == {i \in DOMAIN players : players[i].id = id}
    IN  << IF \E i \in seen : players[i].bet > 0 THEN 1 ELSE 0,
           IF \E i \in seen : ~(players[i].bet > 0) THEN 1 ELSE 0 >>

Observe(obs, players) ==
    [id \in DOMAIN obs |->
        << obs[id][1] + Sighting(players, id)[1], obs[id][2] + Sighting(players, id)[2] >>]

InitAdaptive ==
    /\ EvalIdle
    /\ BetIdle
    /\ opponentAggression = [id \in Ids |-> Undefined]
    /\ observed = [id \in Ids |-> <<0, 0>>]
    /\ calls = 0
    /\ regretValues = NoState
    /\ strategy = NoState

BetRequestAdaptive ==
    /\ calls < MaxCalls
    /\ \E g \in AdaptiveSnapshots :
        /\ gs' = g
        /\ commits' = betRequestAdaptive(opponentAggression, g)
        /\ opponentAggression' = trackOpponentBehavior(opponentAggression, g.players)
        /\ observed' = Observe(observed, g.players)
    /\ calls' = calls + 1
    /\ UNCHANGED <<holeCards, communityCards, score, handY, scoreY, decided,
                   regretValues, strategy, atCallback, logged>>

\* showdown, called with the seats of ShowdownActive active
ShowdownAdaptive ==
    \E g \in ShowdownSnapshots, active \in ShowdownActive :
        /\ logged' = showdownAdaptive(g, active)
        /\ UNCHANGED <<holeCards, communityCards, score, handY, scoreY, gs, commits,
                       decided, opponentAggression, observed, calls, regretValues,
                       strategy, atCallback>>

NextAdaptive == BetRequestAdaptive \/ ShowdownAdaptive

SpecAdaptive == InitAdaptive /\ [][NextAdaptive]_vars

-----------------------------------------------------------------------------
(* SpecRegret: betRequest calls on one regret-tracking Player instance *)

RegretDeals ==
    { [hole |-> AceHole, community |-> <<>>],
      [hole |-> LowHole, community |-> SubSeq(Board, 1, 3)] }

\* the seats of a snapshot of the regret-tracking Player: those of
\* TablePlayers, and the acting seat with more committed than current_buy_in
RegretPlayers(hole) ==
    TablePlayers(hole) \cup { <<Seat(0, 100, 1000, TRUE, hole)>> }

\* the snapshots of RegretDeals, and four kings after the flop
RegretSnapshots ==
    UNION { { Snapshot(20, 20, 50, 0, players, deal.community) :
                players \in RegretPlayers(deal.hole) } :
            deal \in RegretDeals }
    \cup { Snapshot(20, 20, 50, 0, <<Seat(0, 0, 1000, TRUE, KingHole)>>,
                     SubSeq(Board, 1, 3)) }

InitRegret ==
    /\ EvalIdle
    /\ BetIdle
    /\ opponentAggression = [id \in Ids |-> Undefined]
    /\ observed = [id \in Ids |-> <<0, 0>>]
    /\ calls = 0
    /\ regretValues = [fold |-> 0, call |-> 0, raise |-> 0]
    /\ strategy = [fold |-> <<0, 1>>, call |-> <<0, 1>>, raise |-> <<0, 1>>]

\* the values randomBetMultiplier() can return where betRequest calls it:
\* only postFlopStrategy does (1 stands for the value that is never drawn)
MultiplierDraws(g) == IF Len(g.community_cards) = 0 THEN {1} ELSE {1, 2}

\* the outcomes of bluffFrequency > Math.random() where betRequest evaluates
\* it: only postFlopStrategy does, and only past the continuation branch
BluffDraws(g) ==
    IF Len(g.community_cards) = 0 \/ isContinuationBettingScenario
      THEN {FALSE} ELSE BOOLEAN

\* betRequest: makeBet invokes betCallback and then updateRegret; after the
\* strategy method returns, trackOpponentBehavior and updateStrategy run
BetRequestRegret ==
    /\ calls < MaxCalls
    /\ \E g \in RegretSnapshots :
       \E multiplier \in MultiplierDraws(g), bluffs \in BluffDraws(g) :
        LET bet == decideRegret(g, multiplier, bluffs)
            regret == updateRegret(regretValues, bet.action, bet.amount)
        IN  /\ gs' = g
            /\ commits' = <<bet.amount>>
            /\ decided' = bet.action
            /\ atCallback' = [regretValues |-> regretValues, strategy |-> strategy,
                              opponentAggression |-> opponentAggression]
            /\ regretValues' = regret
            /\ opponentAggression' = trackOpponentBehavior(opponentAggression, g.players)
            /\ strategy' = updateStrategy(strategy, regret)
            /\ observed' = Observe(observed, g.players)
    /\ calls' = calls + 1
    /\ UNCHANGED <<holeCards, communityCards, score, handY, scoreY, logged>>

\* a showdown that learns from the seats it is shown: it also runs
\* trackOpponentBehavior on them
ShowdownRegretLearns ==
    \E g \in ShowdownSnapshots, active \in ShowdownActive :
        /\ logged' = showdownRegret(g, active)
        /\ opponentAggression' = trackOpponentBehavior(opponentAggression, g.players)
        /\ UNCHANGED <<holeCards, communityCards, score, handY, scoreY, gs, commits,
                       decided, observed, calls, regretValues, strategy, atCallback>>

\* showdown, called with the seats of ShowdownActive active
ShowdownRegret ==
    \E g \in ShowdownSnapshots, active \in ShowdownActive :
        /\ logged' = showdownRegret(g, active)
        /\ UNCHANGED <<holeCards, communityCards, score, handY, scoreY, gs, commits,
                       decided, opponentAggression, observed, calls, regretValues,
                       strategy, atCallback>>

NextRegret == BetRequestRegret \/ ShowdownRegret

SpecRegret == InitRegret /\ [][NextRegret]_vars

-----------------------------------------------------------------------------
(* Properties *)

AllCards == holeCards \o communityCards

Evaluated == score # <<>>

\* the score of the evaluated hand, and of the second hand
Score == score[1]
ScoreY == scoreY[1]

Called == gs # NoState

\* the number of cards of the evaluated hand that have suit s
SuitCount(s) == Cardinality({i \in DOMAIN AllCards : AllCards[i].suit = s})

\* the evaluated hand has exactly the given ranks, once each
HasExactlyRanks(rs) ==
    /\ Len(AllCards) = Cardinality(rs)
    /\ {AllCards[i].rank : i \in DOMAIN AllCards} = rs

MixedSuits == \A s \in Suits : SuitCount(s) < Len(AllCards)

\* C1 (SpecAdaptive): every betRequest of the opponent-adaptive Player invokes
\* betCallback exactly once.
C1_CommitOnce == Called => Len(commits) = 1

\* C2 (SpecStack): no amount the stack-aware betRequest commits exceeds the
\* acting seat's stack, and when the computed raise (current_buy_in +
\* minimum_raise) or the computed call (current_buy_in - bet) exceeds the stack
\* the callback receives exactly the stack.
C2_StackClamp ==
    Called =>
        LET player == ActingSeat(gs)
            handStrength == evaluateHand(HoleCardsArg(player), gs.community_cards)
            last == commits[Len(commits)]
        IN  /\ \A i \in DOMAIN commits : commits[i] <= player.stack
            /\ ( JsGe(handStrength, 700)
                 /\ gs.current_buy_in + gs.minimum_raise > player.stack )
               => last = player.stack
            /\ ( JsGe(handStrength, 300) /\ ~JsGe(handStrength, 700)
                 /\ gs.current_buy_in - player.bet > player.stack )
               => last = player.stack

\* a computed raise of 300 with a stack of 120 commits 120
C2_Witness ==
    /\ Called
    /\ JsGe(evaluateHand(HoleCardsArg(ActingSeat(gs)), gs.community_cards), 700)
    /\ gs.current_buy_in + gs.minimum_raise = 300
    /\ ActingSeat(gs).stack = 120
    /\ commits = <<120>>

\* C3 (SpecPair): when the category of hand X (the branch evaluateHand takes)
\* ranks above the category of hand Y, X scores strictly above Y.
C3_CategoryOrder ==
    Evaluated =>
        ( handBranch(holeCards, communityCards) > handBranch(handY.hole, handY.community)
          => JsGt(Score, ScoreY) )

\* C4 (SpecStack): when the acting seat has no hole_cards, betRequest commits
\* 0 and no other amount.
C4_NoCardsFold ==
    (Called /\ ~ActingSeat(gs).present) =>
        /\ Len(commits) >= 1
        /\ \A i \in DOMAIN commits : commits[i] = 0

\* the strengths the coarse evaluator gives the deals of the snapshots
CoarseStrengths == {evaluateHandAdaptive(d.hole, d.community) : d \in CoarseDeals}

\* C5 (SpecAdaptive): postFlopStrategy is monotone in handStrength: with
\* callAmount, minimum_raise and pot fixed, a stronger hand never calls or
\* folds where a weaker one raises, and never folds where a weaker one commits
\* a non-zero amount.
C5_Monotone ==
    (Called /\ Len(gs.community_cards) > 0) =>
        LET player == ActingSeat(gs)
            callAmount == gs.current_buy_in - player.bet
            h1 == evaluateHandAdaptive(HoleCardsArg(player), gs.community_cards)
            a1 == commits[1]
        IN  \A h2 \in CoarseStrengths :
                h1 < h2 =>
                    LET a2 == postFlopStrategy(h2, callAmount, gs.minimum_raise, gs.pot)
                    IN  /\ a1 > callAmount => a2 > callAmount
                        /\ a1 # 0 => a2 # 0

\* C6 (SpecAdaptive): every seat's aggression counter is absent until the id
\* is first seen and from then on equals the number of calls that showed the
\* id with bet > 0 minus the number that showed it with bet = 0.
C6_Counter ==
    \A id \in DOMAIN observed :
        opponentAggression[id] =
            IF observed[id] = <<0, 0>> THEN Undefined
            ELSE observed[id][1] - observed[id][2]

\* a seat seen betting in at least 2 calls and not betting in at least 1
C6_Witness ==
    \E id \in DOMAIN observed :
        /\ observed[id][1] >= 2
        /\ observed[id][2] >= 1
        /\ opponentAggression[id] = observed[id][1] - observed[id][2]

\* C7 (SpecEval): five cards A,2,3,4,5 not all of one suit score 400 + 5;
\* every hand scored by the three-of-a-kind, two-pair, one-pair or high-card
\* branch scores below that; five mixed-suit cards 2,3,4,5,6 score 400 + 6;
\* and five mixed-suit cards 10,J,Q,K,A score 400 + 14, a different score.
C7_Wheel ==
    Evaluated =>
        /\ (HasExactlyRanks({"A", "2", "3", "4", "5"}) /\ MixedSuits) => Score = 400 + 5
        /\ handBranch(holeCards, communityCards) \in {0, 1, 2, 3} => JsLt(Score, 400 + 5)
        /\ (HasExactlyRanks({"2", "3", "4", "5", "6"}) /\ MixedSuits) => Score = 400 + 6
        /\ (HasExactlyRanks({"10", "J", "Q", "K", "A"}) /\ MixedSuits) => Score = 400 + 14

\* a mixed-suit wheel has been scored
C7_Witness ==
    /\ Evaluated
    /\ HasExactlyRanks({"A", "2", "3", "4", "5"})
    /\ MixedSuits
    /\ Score = 405

\* C8 (SpecEval): a hand of at most 7 cards with at least 5 cards of one suit
\* scores 500 or more, whether the suit has 5, 6 or 7 cards.
C8_FlushDetected ==
    (Evaluated /\ Len(AllCards) <= 7 /\ \E s \in Suits : SuitCount(s) >= 5)
        => JsGe(Score, 500)

\* a hand with 7 cards of one suit has been scored in the flush band
C8_Witness ==
    /\ Evaluated
    /\ \E s \in Suits : SuitCount(s) = 7
    /\ JsGe(Score, 500)
    /\ JsLt(Score, 600)

\* end-to-end scenario 1 on the regret-tracking Player: pocket aces before the
\* flop, current_buy_in 20, minimum_raise 20, own bet 0, stack 1000
Scenario1 ==
    /\ Called
    /\ gs.community_cards = <<>>
    /\ ActingSeat(gs).present
    /\ ActingSeat(gs).hole_cards = AceHole
    /\ gs.current_buy_in = 20
    /\ gs.minimum_raise = 20
    /\ ActingSeat(gs).bet = 0
    /\ ActingSeat(gs).stack = 1000

\* C9 (SpecRegret): in scenario 1 betRequest decides raise and commits one
\* amount between 40 and 1000.
C9_AcesRaise ==
    Scenario1 =>
        /\ decided = "raise"
        /\ Len(commits) = 1
        /\ commits[1] >= 40
        /\ commits[1] <= 1000

\* end-to-end scenario 2 on the stack-aware Player: 2 of clubs and 7 of
\* diamonds against the board K K K 3 9, current_buy_in 100, own bet 0, stack 50
Scenario2 ==
    /\ Called
    /\ ActingSeat(gs).present
    /\ ActingSeat(gs).hole_cards = LowHole
    /\ gs.community_cards = Board
    /\ gs.current_buy_in = 100
    /\ ActingSeat(gs).bet = 0
    /\ ActingSeat(gs).stack = 50

\* C10 as stated (SpecStack): in scenario 2 betRequest folds, the callback
\* receives 0.
C10_ScenarioFolds == Scenario2 => commits = <<0>>

\* C10 as amended (SpecStack): in scenario 2 the hand scores as three kings
\* (313, a moderate hand), betRequest calls, and the call of 100 is clamped to
\* the stack: the callback receives 50, once.
C10_ScenarioCallsAllIn ==
    Scenario2 =>
        /\ evaluateHand(LowHole, Board) = 313
        /\ commits = <<50>>

C10_Witness == Scenario2 /\ commits = <<50>>

\* C11 (SpecRegret): a showdown call (the one step that is not a betRequest,
\* so the one that leaves the number of betRequest calls as it was) leaves
\* regretValues, strategy and opponentAggression as they were and passes no
\* amount to a commit callback (the record of committed amounts does not
\* change), whatever the state of the instance and whatever the snapshot.
C11_ShowdownReadOnly ==
    [][calls' = calls =>
         UNCHANGED <<regretValues, strategy, opponentAggression, commits, atCallback>>]_vars

\* a showdown has logged strengths on an instance that has already learnt
\* from betRequest calls, and the learnt state is that of the calls alone
C11_Witness ==
    /\ logged # <<>>
    /\ calls >= 2
    /\ regretValues.fold + regretValues.raise > 0
    /\ \E id \in Ids : opponentAggression[id] # Undefined
    /\ \A id \in Ids :
          opponentAggression[id] =
              IF observed[id] = <<0, 0>> THEN Undefined
              ELSE observed[id][1] - observed[id][2]

\* C12 (SpecStack): every amount the stack-aware betRequest passes to the
\* callback is non-negative, for every snapshot with current_buy_in >= 0,
\* bet >= 0, stack >= 0 and minimum_raise > 0, also when the acting seat's bet
\* exceeds current_buy_in.
C12_NonNegative ==
    ( /\ Called
      /\ gs.current_buy_in >= 0
      /\ ActingSeat(gs).bet >= 0
      /\ ActingSeat(gs).stack >= 0
      /\ gs.minimum_raise > 0 )
    => \A i \in DOMAIN commits : commits[i] >= 0

\* updateStrategy's weights as exact fractions <<numerator, denominator>>
InUnitInterval(q) == 0 <= q[1] /\ q[1] <= q[2]

SumsToOne(a, b, c) ==
    a[1] * b[2] * c[2] + b[1] * a[2] * c[2] + c[1] * a[2] * b[2] = a[2] * b[2] * c[2]

\* C13 (SpecRegret): in every reachable state of the regret-tracking Player,
\* the freshly constructed one included, the strategy weights of fold, call
\* and raise each lie in [0,1] and sum to 1.
C13_StrategyDistribution ==
    /\ InUnitInterval(strategy.fold)
    /\ InUnitInterval(strategy.call)
    /\ InUnitInterval(strategy.raise)
    /\ SumsToOne(strategy.fold, strategy.call, strategy.raise)

\* C15 (SpecRegret): the amount betRequest commits is determined by the
\* instance's state and the snapshot: every outcome of Math.random gives the
\* amount that was committed, before the flop and after it.
C15_Deterministic ==
    Called =>
        \A multiplier \in {1, 2}, bluffs \in BOOLEAN :
            commits = <<decideRegret(gs, multiplier, bluffs).amount>>

Reverse(cards) == [i \in DOMAIN cards |-> cards[Len(cards) + 1 - i]]

\* C14 (SpecEval): the score depends on the cards only, not on their order
\* and not on how they are split between holeCards and communityCards: the
\* same cards in reverse order, and either order split at any point, score
\* what the hand scored.
C14_MultisetOnly ==
    Evaluated =>
        \A k \in 0..Len(AllCards) :
            /\ evaluateHand(SubSeq(AllCards, 1, k),
                            SubSeq(AllCards, k + 1, Len(AllCards))) = Score
            /\ evaluateHand(SubSeq(Reverse(AllCards), 1, k),
                            SubSeq(Reverse(AllCards), k + 1, Len(AllCards))) = Score

\* C17 (SpecRegret): when betCallback is invoked, trackOpponentBehavior and
\* the Player's own update for that betRequest are already done: the fields
\* the callback finds are those the betRequest returns with.
C17_UpdatedBeforeCommit ==
    Called =>
        /\ atCallback.opponentAggression = opponentAggression
        /\ atCallback.regretValues = regretValues
        /\ atCallback.strategy = strategy

\* the number of seats opponentBasedStrategy counts as aggressive, as passive
Keys(agg) == {id \in DOMAIN agg : agg[id] # Undefined}
AggressiveCount(agg) == Cardinality({id \in Keys(agg) : agg[id] > 3})
PassiveCount(agg) == Cardinality({id \in Keys(agg) : agg[id] < -3})

\* the hand strengths the coarse evaluator can return
Strengths == {10, 20, 30, 40, 50, 60, 70, 80, 90, 100}

\* the smallest hand strength for which opponentBasedStrategy commits a
\* non-zero amount (110 when there is none)
ContinueThreshold(agg, callAmount, minimum_raise) ==
    LET continues == {h \in Strengths :
                        opponentBasedStrategy(agg, h, callAmount, minimum_raise) # 0}
    IN  IF continues = {} THEN 110 ELSE MinOf(continues)

\* C18 (SpecAdaptive): when the aggressive seats outnumber the passive ones,
\* the smallest hand strength for which opponentBasedStrategy commits a
\* non-zero amount is strictly higher than with an empty table (no aggressive
\* and no passive seat), for the same callAmount and minimum_raise.
C18_TighterVsAggressive ==
    (Called /\ AggressiveCount(opponentAggression) > PassiveCount(opponentAggression)) =>
        LET callAmount == gs.current_buy_in - ActingSeat(gs).bet
        IN  ContinueThreshold(opponentAggression, callAmount, gs.minimum_raise)
              > ContinueThreshold([id \in Ids |-> Undefined], callAmount, gs.minimum_raise)

\* C19 (SpecStack): with callAmount = current_buy_in - bet, every amount the
\* stack-aware betRequest commits is 0, or min(callAmount, stack), or
\* min(callAmount + k * minimum_raise, stack) for an integer k >= 1.  The last
\* means: the stack (reached by a large enough k), or an amount at most the
\* stack that exceeds callAmount by a positive multiple of minimum_raise.
C19_AmountShape ==
    (Called /\ gs.minimum_raise > 0) =>
        LET player == ActingSeat(gs)
            callAmount == gs.current_buy_in - player.bet
            IsCall(a) == a = IF callAmount <= player.stack THEN callAmount
                             ELSE player.stack
            IsRaise(a) == \/ a = player.stack
                          \/ /\ a <= player.stack
                             /\ a - callAmount >= gs.minimum_raise
                             /\ (a - callAmount) % gs.minimum_raise = 0
        IN  \A i \in DOMAIN commits :
                commits[i] = 0 \/ IsCall(commits[i]) \/ IsRaise(commits[i])

\* the number of cards of rank r among cards
RankCardinality(cards, r) == Cardinality({i \in DOMAIN cards : cards[i].rank = r})

\* cards hold three of one rank and two of another, and nothing else
IsFullHouse(cards) ==
    /\ Len(cards) = 5
    /\ \E t, p \in DOMAIN rankValues :
          RankCardinality(cards, t) = 3 /\ RankCardinality(cards, p) = 2

\* the value of the rank held three times
TripleValue(cards) ==
    rankValues[CHOOSE t \in DOMAIN rankValues : RankCardinality(cards, t) = 3]

\* C20 (SpecHouse): of two full houses, the one whose three-of-a-kind rank
\* is higher scores strictly higher, whatever the ranks of the two pairs.
C20_TripleDominates ==
    Evaluated =>
        LET x == AllCards
            y == handY.hole \o handY.community
        IN  (IsFullHouse(x) /\ IsFullHouse(y) /\ TripleValue(x) > TripleValue(y))
                => JsGt(Score, ScoreY)

\* the values of the ranks that cards hold exactly twice
PairValues(cards) ==
    {rankValues[r] : r \in {q \in DOMAIN rankValues : RankCardinality(cards, q) = 2}}

\* cards hold two pairs or more and no rank three times
IsTwoPair(cards) ==
    /\ Cardinality(PairValues(cards)) >= 2
    /\ \A r \in DOMAIN rankValues : RankCardinality(cards, r) <= 2

\* the second highest pair
SecondPair(cards) == MaxOf(PairValues(cards) \ {MaxOf(PairValues(cards))})

\* C21 (SpecTwoPair): of two two-pair hands, the one whose higher pair has
\* the higher rank scores strictly higher, whatever the lower pairs; and a
\* hand of three pairs is scored by its two highest pairs.
C21_HighPairDominates ==
    Evaluated =>
        LET x == AllCards
            y == handY.hole \o handY.community
        IN  /\ ( IsTwoPair(x) /\ IsTwoPair(y)
                 /\ MaxOf(PairValues(x)) > MaxOf(PairValues(y)) )
               => JsGt(Score, ScoreY)
            /\ ( IsTwoPair(x) /\ Cardinality(PairValues(x)) = 3 )
               => Score = 200 + MaxOf(PairValues(x)) * 10 + SecondPair(x)

\* the cards of cards that have suit s
OfSuit(cards, s) == SelectSeq(cards, LAMBDA c : c.suit = s)

\* the rank values of cards, the Ace counting as 14 and as 1
ValuesAceLow(cards) ==
    {rankValues[cards[i].rank] : i \in DOMAIN cards} \cup
    {1 : i \in {j \in DOMAIN cards : cards[j].rank = "A"}}

\* cards hold five cards of consecutive ranks in one suit (A-2-3-4-5 included)
HasStraightFlush(cards) ==
    \E s \in Suits : \E low \in 1..10 :
        \A v \in low..(low + 4) : v \in ValuesAceLow(OfSuit(cards, s))

\* cards hold five cards or more of one suit
HasFlush(cards) == \E s \in Suits : Len(OfSuit(cards, s)) >= 5

\* the highest rank value among the cards of the flush suit
FlushTop(cards) ==
    LET s == CHOOSE t \in Suits : Len(OfSuit(cards, t)) >= 5
    IN  MaxOf({rankValues[c.rank] : c \in Range(OfSuit(cards, s))})

\* five hearts 2, 3, 4, 6 and one higher card: flushes to compare with
FlushReferences ==
    { << Card("2", "hearts"), Card("3", "hearts"), Card("4", "hearts"),
         Card("6", "hearts"), Card(top, "hearts") >> : top \in {"10", "J", "Q", "K", "A"} }

\* C22 (SpecEval): of two flushes that are no straight flushes, the one
\* whose flush-suit cards have the higher top rank scores strictly higher;
\* the cards outside the flush suit do not matter.  The evaluated hand is
\* compared with each of the five-card flushes of FlushReferences.
C22_FlushMonotone ==
    (Evaluated /\ Len(AllCards) <= 7 /\ HasFlush(AllCards)
       /\ ~HasStraightFlush(AllCards)) =>
        \A y \in FlushReferences :
            /\ FlushTop(AllCards) > FlushTop(y) => JsGt(Score, evaluateHand(<<>>, y))
            /\ FlushTop(AllCards) < FlushTop(y) => JsLt(Score, evaluateHand(<<>>, y))

\* C23 (SpecEval): a hand of at most 7 cards scores 800 or more exactly when
\* it holds five cards of consecutive ranks in one suit, the Ace counting
\* low for A-2-3-4-5, whatever the high card of the run.
C23_StraightFlushBand ==
    (Evaluated /\ Len(AllCards) <= 7) =>
        (JsGe(Score, 800) <=> HasStraightFlush(AllCards))

\* a hand holds three cards of each of two ranks
HasTwoTriples(cards) ==
    Cardinality({r \in DOMAIN rankValues : RankCardinality(cards, r) = 3}) >= 2

\* C26 (SpecEval): every hand of 0 to 7 distinct valid cards gets a finite
\* integer score (no NaN, no undefined, no infinity); a 7-card hand with two
\* three-of-a-kinds scores in [600, 700); the empty hand scores no more than
\* any other hand's high-card score (at most 2).
C26_FiniteScore ==
    (Evaluated /\ Len(AllCards) <= 7) =>
        /\ IsNumber(Score)
        /\ Score # NegInfinity
        /\ Score # -NegInfinity
        /\ (Len(AllCards) = 7 /\ HasTwoTriples(AllCards))
              => (JsGe(Score, 600) /\ JsLt(Score, 700))
        /\ AllCards = <<>> => (JsGe(Score, 0) /\ JsLt(Score, 3))

\* the cards of the acting seat's hand whose rank rankValues lists
ValidCards(cards) == SelectSeq(cards, LAMBDA c : c.rank \in DOMAIN rankValues)

\* C24 (SpecUnknown): a card of an unknown rank counts as 0: a hand with one
\* such card still gets an integer score of 0 or more, a hand whose other
\* cards are unpaired (and make no straight and no flush) scores the highest
\* of their ranks, and betRequest passes one amount to the callback.
C24_UnknownRankCountsZero ==
    Called =>
        LET cards == HoleCardsArg(ActingSeat(gs)) \o gs.community_cards
            valid == ValidCards(cards)
            handStrength == evaluateHand(HoleCardsArg(ActingSeat(gs)), gs.community_cards)
        IN  Len(valid) = Len(cards) - 1 =>
                /\ IsNumber(handStrength)
                /\ handStrength >= 0
                /\ handBranch(<<>>, valid) = 0
                      => handStrength = evaluateHand(<<>>, valid)
                /\ Len(commits) = 1

\* C25 (SpecCoarse): the coarse evaluateHand of the opponent-adaptive Player
\* scores every hand that holds five cards or more of one suit at least 60
\* (flush, straight flush or royal flush).
C25_CoarseFlush ==
    (Evaluated /\ HasFlush(AllCards)) => Score >= 60

\* C27 (SpecRegret): the regret-tracking Player never records a call:
\* regretValues.call and strategy.call are 0 in every reachable state, every
\* decision is labelled raise or fold, and every decision after the flop is a
\* raise of callAmount + m * minimum_raise with m 1 or 2, whatever the hand.
C27_NeverCalls ==
    /\ regretValues.call = 0
    /\ strategy.call[1] = 0
    /\ Called =>
          LET callAmount == gs.current_buy_in - ActingSeat(gs).bet
          IN  /\ decided \in {"raise", "fold"}
              /\ Len(gs.community_cards) > 0 =>
                    /\ decided = "raise"
                    /\ commits[1] \in { callAmount + gs.minimum_raise,
                                        callAmount + 2 * gs.minimum_raise }

\* after folds before the flop and raises after it, four kings (strength 80,
\* above the value-bet threshold of 50) have been raised and no call recorded
C27_Witness ==
    /\ Called
    /\ Len(gs.community_cards) > 0
    /\ ActingSeat(gs).hole_cards = KingHole
    /\ evaluateHandRegret(KingHole, gs.community_cards) > 50
    /\ decided = "raise"
    /\ regretValues.fold > 0
    /\ regretValues.raise > commits[1]
    /\ regretValues.call = 0
    /\ strategy.call = <<0, 1>>

\* the amount opponentBasedStrategy commits in its default branch
DefaultBranch(handStrength, callAmount, minimum_raise) ==
    IF handStrength > 70 THEN callAmount + minimum_raise * 2
    ELSE IF handStrength > 40 THEN callAmount
    ELSE 0

\* C28 (SpecAdaptive): after n betRequest calls on a fresh opponent-adaptive
\* Player every aggression counter lies between -n and n; so in the first 3
\* calls no seat counts as aggressive (> 3) or passive (< -3) and the amount
\* opponentBasedStrategy commits is that of its default branch.
C28_CountersBounded ==
    /\ \A id \in Keys(opponentAggression) :
          /\ opponentAggression[id] <= calls
          /\ 0 - calls <= opponentAggression[id]
    /\ (Called /\ calls <= 3) =>
          /\ AggressiveCount(opponentAggression) = 0
          /\ PassiveCount(opponentAggression) = 0
          /\ commits[2] =
                DefaultBranch(evaluateHandAdaptive(HoleCardsArg(ActingSeat(gs)),
                                                   gs.community_cards),
                              gs.current_buy_in - ActingSeat(gs).bet,
                              gs.minimum_raise)

\* the 4th call is the first to leave the default branch: a seat has reached
\* -4, the passive seats outnumber the aggressive ones, and a hand of
\* strength 40 or less, which the default branch folds, commits callAmount
C28_Witness ==
    /\ Called
    /\ calls = 4
    /\ \E id \in Keys(opponentAggression) : opponentAggression[id] = -4
    /\ PassiveCount(opponentAggression) > AggressiveCount(opponentAggression)
    /\ evaluateHandAdaptive(HoleCardsArg(ActingSeat(gs)), gs.community_cards) <= 40
    /\ commits[2] = gs.current_buy_in - ActingSeat(gs).bet
    /\ commits[2] # 0

====
